---- MODULE Spec2Model ----
(***************************************************************************)
(* Model of the data-acquisition and offline layer of the Calchas weather  *)
(* app: the provider clients (visualcrossing.js, meteostat, bigdatacloud,  *)
(* sunrisesunset) and the service worker (service-worker.js).              *)
(*                                                                         *)
(* The specifications share the variables:                                 *)
(*   SpecProvider   one call of a provider client's fetch method           *)
(*   SpecQueue      the worker's sync events and retryFailedRequests       *)
(*   SpecShell      the worker's fetch handler and the shell cache         *)
(*   SpecLifecycle  the worker's install and activate handlers             *)
(*   SpecSwr        the worker's staleWhileRevalidate                      *)
(*   SpecFormat     the formatters' pure functions                         *)
(*   SpecAnalytics  the Analytics singleton (utils/analytics.js)           *)
(***************************************************************************)
EXTENDS Integers, Sequences, FiniteSets, TLC

VARIABLES
    \* ---- provider client call ----
    provider,   \* which client is called
    args,       \* the call's arguments
    pc,         \* position of the async function
    attempt,    \* `attempt` of the retry loop
    calls,      \* number of safeApiFetch calls made so far
    waits,      \* the backoff waits (ms) slept so far, in order
    errs,       \* the error caught after each failed attempt, in order
    data,       \* `data`: the parsed payload of the last attempt
    outcome,    \* what the returned promise settled with
    clock,      \* Date.now(), in ms
    startTime,  \* `startTime` / `start`: the clock read before the first call
    \* ---- service worker ----
    store,      \* IndexedDB object store "failedRequests": id -> entry
    drains,     \* running / finished executions of retryFailedRequests
    cache,      \* CacheStorage: cache name -> (url -> response)
    fetchEv,    \* the fetch event being handled
    puts,       \* cache.put calls issued and not yet settled
    lastEvent,  \* the last sync / periodicsync event dispatched
    started,    \* the routines the handlers of lastEvent started
    installEv,  \* the install event: the promise given to waitUntil
    activateEv, \* the activate event: the promise given to waitUntil
    swr,        \* the call of staleWhileRevalidate
    \* ---- pure functions ----
    fn,         \* the function applied
    input,      \* its argument
    output,     \* what it returned
    \* ---- analytics ----
    analytics   \* window.analytics and the localStorage keys it uses

provVars == <<provider, args, pc, attempt, calls, waits, errs, data, outcome,
             clock, startTime>>
lifeVars == <<installEv, activateEv, swr>>
swVars == <<store, drains, cache, fetchEv, puts, lastEvent, started, lifeVars>>
pureVars == <<fn, input, output>>
vars == <<provVars, swVars, pureVars, analytics>>

(***************************************************************************)
(* Error messages.  A message is a sequence of tokens (words); the regular *)
(* expressions of the code look for tokens or runs of tokens in it.        *)
(***************************************************************************)
HasToken(msg, t) == \E i \in DOMAIN msg : msg[i] = t

HasRun(msg, run) ==
    \E i \in 1..Len(msg) :
        /\ i + Len(run) - 1 <= Len(msg)
        /\ \A j \in 1..Len(run) : msg[i + j - 1] = run[j]

\* the tokens matched by 4\d\d among the status codes of the model
FourXX == {"400", "401", "403", "404", "429"}

HasHttp4xx(msg) ==
    \E i \in 1..Len(msg) :
        /\ i + 2 <= Len(msg)
        /\ msg[i] = "HTTP" /\ msg[i + 1] = "Fehler" /\ msg[i + 2] \in FourXX

HasClientStatus(msg) == \E t \in {"401", "403", "404", "429"} : HasToken(msg, t)

(***************************************************************************)
(* Provider clients: inputs                                                *)
(***************************************************************************)
Providers == {"visualcrossing", "meteostat", "bigdatacloud", "sunrisesunset"}

\* clients whose fetch method has the retry loop
RetryProviders == {"visualcrossing", "meteostat"}

Latitudes == {-91, 52}
Longitudes == {13, 181}

\* apiKey values: null, "", "   " and a usable key
ApiKeys == {"null", "empty", "blank", "text"}

\* a date argument: missing, not YYYY-MM-DD, or a calendar day (day number)
NoDate == [k |-> "none", d |-> 0]
BadDate == [k |-> "bad", d |-> 0]
Day(n) == [k |-> "day", d |-> n]
Dates == {NoDate, BadDate, Day(0), Day(1), Day(367)}

\* the free-tier limit on the date range, in days
MaxRangeDays == 365

ArgsOf(p) ==
    IF p = "meteostat"
    THEN [latitude : Latitudes, longitude : Longitudes, apiKey : {"null"},
          startDate : Dates, endDate : Dates]
    ELSE [latitude : Latitudes, longitude : Longitudes,
          apiKey : IF p = "visualcrossing" THEN ApiKeys ELSE {"null", "text"},
          startDate : {NoDate}, endDate : {NoDate}]

(***************************************************************************)
(* validateCoordinates and safeApiFetch are called by every client but are *)
(* defined in files that are not part of the sources at hand.              *)
(***************************************************************************)
validateCoordinates(latitude, longitude) ==
    IF latitude \in -90..90 /\ longitude \in -180..180
    THEN [valid |-> TRUE, error |-> <<>>]
    ELSE [valid |-> FALSE, error |-> <<"Ungueltige", "Koordinaten">>]

HttpError(status) == <<"HTTP", "Fehler", status>>

\* the messages safeApiFetch rejects with: HTTP status errors, a failed
\* connection, a timeout
FetchErrors ==
    {HttpError(s) : s \in {"400", "401", "403", "404", "429", "500", "503"}}
        \cup {<<"Failed", "to", "fetch">>, <<"Zeitueberschreitung">>}

\* payloads of Visual Crossing
VCPayloads ==
    {[isNull |-> TRUE, errorCode |-> FALSE, message |-> <<>>,
      currentConditions |-> FALSE, days |-> "missing"]}
    \cup [isNull : {FALSE}, errorCode : {TRUE},
          message : {<<"Invalid", "API", "key">>, <<"Bad", "location">>, <<>>},
          currentConditions : {FALSE}, days : {"missing"}]
    \cup [isNull : {FALSE}, errorCode : {FALSE}, message : {<<>>},
          currentConditions : BOOLEAN, days : {"missing", "array", "arrayWithNull"}]

\* payloads of Meteostat
MeteostatPayloads ==
    {[isNull |-> TRUE, error |-> <<>>, data |-> "missing"]}
    \cup [isNull : {FALSE},
          error : {<<"Invalid", "request">>, <<"Service", "overloaded">>},
          data : {"missing"}]
    \cup [isNull : {FALSE}, error : {<<>>},
          data : {"missing", "empty", "array", "arrayWithNull"}]

\* payloads of BigDataCloud; nullAdmin: localityInfo.administrative holds a
\* null entry
BigDataCloudPayloads ==
    [isNull : {FALSE}, isObject : BOOLEAN, latitude : {FALSE}, nullAdmin : {FALSE}]
    \cup {[isNull |-> TRUE, isObject |-> FALSE, latitude |-> FALSE, nullAdmin |-> FALSE]}
    \cup [isNull : {FALSE}, isObject : {TRUE}, latitude : {TRUE}, nullAdmin : BOOLEAN]

\* payloads of sunrise-sunset.org
SunriseSunsetPayloads ==
    {[isNull |-> TRUE, status |-> <<>>, error |-> <<>>]}
    \cup [isNull : {FALSE}, status : {<<"OK">>, <<"INVALID_REQUEST">>, <<>>},
          error : {<<>>, <<"unknown", "error">>}]

PayloadsOf(p) ==
    CASE p = "visualcrossing" -> VCPayloads
      [] p = "meteostat" -> MeteostatPayloads
      [] p = "bigdatacloud" -> BigDataCloudPayloads
      [] OTHER -> SunriseSunsetPayloads

NullPayload(p) == CHOOSE d \in PayloadsOf(p) : d.isNull

\* what one call of safeApiFetch followed by response.json() can give:
\* safeApiFetch rejects, the body is not JSON, or a payload
Attempts(p) ==
    {[step |-> "fetch", msg |-> m, payload |-> NullPayload(p)] : m \in FetchErrors}
    \cup {[step |-> "json", msg |-> <<"Unexpected", "token">>,
           payload |-> NullPayload(p)]}
    \cup {[step |-> "payload", msg |-> <<>>, payload |-> d] : d \in PayloadsOf(p)}

(***************************************************************************)
(* Provider clients: the pure parts                                        *)
(***************************************************************************)
\* `maxAttempts` of both retry loops
maxAttempts == 3

\* the base of the backoff, in ms
BackoffBaseMs == 200

\* /HTTP Fehler 4\d\d|401|403|404|429|API key|Invalid API|unauthorized/
isClientErrorVC(msg) ==
    \/ HasHttp4xx(msg)
    \/ HasClientStatus(msg)
    \/ HasRun(msg, <<"API", "key">>)
    \/ HasRun(msg, <<"Invalid", "API">>)
    \/ HasToken(msg, "unauthorized")

\* /HTTP Fehler 4\d\d|401|403|404|429|API key|Invalid/
isClientErrorMeteostat(msg) ==
    \/ HasHttp4xx(msg)
    \/ HasClientStatus(msg)
    \/ HasRun(msg, <<"API", "key">>)
    \/ HasToken(msg, "Invalid")

isClientError(p, msg) ==
    IF p = "visualcrossing" THEN isClientErrorVC(msg) ELSE isClientErrorMeteostat(msg)

\* a backoff that starts one doubling too far
waitMsOffByOne(a) == BackoffBaseMs * 2 ^ a

\* 200 * Math.pow(2, attempt - 1)
waitMs(a) == BackoffBaseMs * 2 ^ (a - 1)

\* a key test that forgets to trim
ApiKeyMissingNoTrim(apiKey) == apiKey \in {"null", "empty"}

\* !apiKey || typeof apiKey !== 'string' || apiKey.trim().length === 0
ApiKeyMissing(apiKey) ==
    \/ apiKey \in {"null", "empty"}
    \/ apiKey = "null"
    \/ apiKey \in {"empty", "blank"}

_validateDates(startDate, endDate) ==
    IF startDate.k = "none"
    THEN [valid |-> FALSE, error |-> <<"Startdatum", "erforderlich">>]
    ELSE IF endDate.k = "none"
    THEN [valid |-> FALSE, error |-> <<"Enddatum", "erforderlich">>]
    ELSE IF startDate.k = "bad" \/ endDate.k = "bad"
    THEN [valid |-> FALSE, error |-> <<"Ungueltiges", "Datumformat">>]
    ELSE IF startDate.d > endDate.d
    THEN [valid |-> FALSE, error |-> <<"Startdatum", "muss", "vor", "Enddatum", "liegen">>]
    ELSE IF endDate.d - startDate.d > MaxRangeDays
    THEN [valid |-> FALSE, error |-> <<"Zeitraum", "darf", "365", "Tage", "nicht", "ueberschreiten">>]
    ELSE [valid |-> TRUE, error |-> <<>>]

_validateResponseVC(d) ==
    IF d.isNull
    THEN [valid |-> FALSE, error |-> <<"Keine", "Daten", "von", "Visual", "Crossing", "erhalten">>]
    ELSE IF d.errorCode
    THEN [valid |-> FALSE,
          error |-> <<"Visual", "Crossing:">> \o
                    (IF d.message # <<>> THEN d.message ELSE <<"Error", "code:", "errorCode">>)]
    ELSE IF ~d.currentConditions
    THEN [valid |-> FALSE,
          error |-> <<"Ungueltige", "Visual", "Crossing", "Antwort:", "Keine", "aktuellen", "Bedingungen">>]
    ELSE IF d.days = "missing"
    THEN [valid |-> FALSE,
          error |-> <<"Ungueltige", "Visual", "Crossing", "Antwort:", "Keine", "Tagesdaten">>]
    ELSE [valid |-> TRUE, error |-> <<>>]

_validateResponseMeteostat(d) ==
    IF d.isNull
    THEN [valid |-> FALSE, error |-> <<"Keine", "Daten", "von", "Meteostat", "erhalten">>]
    ELSE IF d.error # <<>>
    THEN [valid |-> FALSE, error |-> <<"Meteostat:">> \o d.error]
    ELSE IF d.data = "missing"
    THEN [valid |-> FALSE,
          error |-> <<"Ungueltige", "Meteostat", "Antwort:", "Keine", "Datenarray">>]
    ELSE IF d.data = "empty"
    THEN [valid |-> FALSE,
          error |-> <<"Meteostat:", "Keine", "Daten", "fuer", "den", "angegebenen", "Zeitraum">>]
    ELSE [valid |-> TRUE, error |-> <<>>]

\* !payload || typeof payload !== "object" || payload.latitude === undefined
_validateResponseBigDataCloud(d) ==
    IF d.isNull \/ ~d.isObject \/ ~d.latitude
    THEN [valid |-> FALSE, error |-> <<"Ungueltige", "BigDataCloud", "Antwort">>]
    ELSE [valid |-> TRUE, error |-> <<>>]

\* !payload || payload.status !== "OK", and the message thrown:
\* payload?.status || payload?.error || "SunriseSunset API Fehler"
_validateResponseSunriseSunset(d) ==
    IF d.isNull \/ d.status # <<"OK">>
    THEN [valid |-> FALSE,
          error |-> IF ~d.isNull /\ d.status # <<>> THEN d.status
                    ELSE IF ~d.isNull /\ d.error # <<>> THEN d.error
                    ELSE <<"SunriseSunset", "API", "Fehler">>]
    ELSE [valid |-> TRUE, error |-> <<>>]

_validateResponse(p, d) ==
    CASE p = "visualcrossing" -> _validateResponseVC(d)
      [] p = "meteostat" -> _validateResponseMeteostat(d)
      [] p = "bigdatacloud" -> _validateResponseBigDataCloud(d)
      [] OTHER -> _validateResponseSunriseSunset(d)

\* the formatting step throws on a null row (day.datetime, day.date) or a
\* null administrative entry (entry.name); SunriseSunsetAPI._normalize only
\* reads properties of an object
FormatThrows(p, d) ==
    CASE p = "visualcrossing" -> d.days = "arrayWithNull"
      [] p = "meteostat" -> d.data = "arrayWithNull"
      [] p = "bigdatacloud" -> d.nullAdmin
      [] OTHER -> FALSE

FormatError == <<"Cannot", "read", "properties", "of", "null">>

(***************************************************************************)
(* Provider clients: what the promise settles with                         *)
(***************************************************************************)
\* the duration field of a result that has none
NoDuration == -1

\* the kind of error of a result: no result object has a property that names
\* one, the catch keeps error.message only
NoKind == "undefined"

NoOutcome ==
    [settled |-> "pending", source |-> "", hasError |-> FALSE, error |-> <<>>,
     hasData |-> FALSE, duration |-> NoDuration, kind |-> NoKind]

\* return { ..., duration, source }
Success(p, duration) ==
    [settled |-> "resolved", source |-> p, hasError |-> FALSE, error |-> <<>>,
     hasData |-> TRUE, duration |-> duration, kind |-> NoKind]

\* an outer catch that lets the error escape
CatchRethrows(p, msg) ==
    [settled |-> "rejected", source |-> "", hasError |-> FALSE, error |-> msg,
     hasData |-> FALSE, duration |-> NoDuration, kind |-> NoKind]

\* the outer catch: return { error: error.message, source }
Catch(p, msg) ==
    [settled |-> "resolved", source |-> p, hasError |-> TRUE, error |-> msg,
     hasData |-> FALSE, duration |-> NoDuration, kind |-> NoKind]

\* the time one safeApiFetch call with response.json() takes: a quick answer,
\* or as long as the client's timeout (this.timeout = 5000)
CallMs == {20, 5000}

\* how late a timer can fire, in ms
TimerLateMs == {0, 4}

\* a backoff promise that is not awaited
TimerFiresAtOnce(ms) == {0}

\* await new Promise(r => setTimeout(r, waitMs)): the time that passes
TimerFires(ms) == {ms + late : late \in TimerLateMs}

(***************************************************************************)
(* Provider clients: the async fetch methods                               *)
(***************************************************************************)
\* the error a try body ends with for attempt result r: safeApiFetch or
\* response.json() throws, or _validateResponse rejects the payload
Thrown(p, r) ==
    IF r.step \in {"fetch", "json"}
    THEN [thrown |-> TRUE, msg |-> r.msg, step |-> r.step]
    ELSE IF ~_validateResponse(p, r.payload).valid
    THEN [thrown |-> TRUE, msg |-> _validateResponse(p, r.payload).error,
          step |-> "schema"]
    ELSE [thrown |-> FALSE, msg |-> <<>>, step |-> "payload"]

\* a catch block that gives up on the last attempt only
RethrowsOnLastOnly(p, msg, a) == a >= maxAttempts

\* the catch block of the retry loop decides to rethrow: isClientError || isLast
Rethrows(p, msg, a) == isClientError(p, msg) \/ a >= maxAttempts

Return(o) ==
    /\ outcome' = o
    /\ pc' = "done"

\* fetchWeather up to the retry loop: API key, then coordinates
FetchWeatherPreconditions ==
    /\ provider = "visualcrossing" /\ pc = "start"
    /\ IF ApiKeyMissing(args.apiKey)
       THEN Return(Catch(provider, <<"Visual", "Crossing", "API", "key", "erforderlich">>))
       ELSE IF ~validateCoordinates(args.latitude, args.longitude).valid
       THEN Return(Catch(provider, validateCoordinates(args.latitude, args.longitude).error))
       ELSE pc' = "attempt" /\ UNCHANGED outcome
    /\ startTime' = IF pc' = "attempt" THEN clock ELSE startTime
    /\ UNCHANGED <<provider, args, attempt, calls, waits, errs, data, clock, swVars, pureVars, analytics>>

\* fetchHistorical up to the retry loop: coordinates, then dates
FetchHistoricalPreconditions ==
    /\ provider = "meteostat" /\ pc = "start"
    /\ IF ~validateCoordinates(args.latitude, args.longitude).valid
       THEN Return(Catch(provider, validateCoordinates(args.latitude, args.longitude).error))
       ELSE IF ~_validateDates(args.startDate, args.endDate).valid
       THEN Return(Catch(provider, _validateDates(args.startDate, args.endDate).error))
       ELSE pc' = "attempt" /\ UNCHANGED outcome
    /\ startTime' = IF pc' = "attempt" THEN clock ELSE startTime
    /\ UNCHANGED <<provider, args, attempt, calls, waits, errs, data, clock, swVars, pureVars, analytics>>

\* fetchLocationDetails / fetchSunEvents up to the network call
FetchSimplePreconditions ==
    /\ provider \in {"bigdatacloud", "sunrisesunset"} /\ pc = "start"
    /\ IF ~validateCoordinates(args.latitude, args.longitude).valid
       THEN Return(Catch(provider, validateCoordinates(args.latitude, args.longitude).error))
       ELSE pc' = "attempt" /\ UNCHANGED outcome
    /\ startTime' = IF pc' = "attempt" THEN clock ELSE startTime
    /\ UNCHANGED <<provider, args, attempt, calls, waits, errs, data, clock, swVars, pureVars, analytics>>

\* one iteration of the retry loop of fetchWeather / fetchHistorical, up to
\* the next suspension (the backoff timer) or the return
RetryLoopAttempt ==
    /\ provider \in RetryProviders /\ pc = "attempt"
    /\ attempt < maxAttempts
    /\ calls' = calls + 1
    /\ \E ms \in CallMs : clock' = clock + ms
    /\ \E r \in Attempts(provider) :
        LET t == Thrown(provider, r) IN
        IF ~t.thrown
        THEN /\ data' = r.payload
             /\ Return(IF FormatThrows(provider, r.payload)
                       THEN Catch(provider, FormatError)
                       ELSE Success(provider, clock' - startTime))
             /\ UNCHANGED <<attempt, waits, errs>>
        ELSE /\ attempt' = attempt + 1
             /\ errs' = Append(errs, [msg |-> t.msg, step |-> t.step])
             /\ data' = IF t.step = "schema" THEN r.payload ELSE data
             /\ IF Rethrows(provider, t.msg, attempt + 1)
                THEN Return(Catch(provider, t.msg)) /\ UNCHANGED waits
                ELSE /\ waits' = Append(waits, waitMs(attempt + 1))
                     /\ pc' = "backoff"
                     /\ UNCHANGED outcome
    /\ UNCHANGED <<provider, args, startTime, swVars, pureVars, analytics>>

\* the backoff timer fires and the loop goes round
BackoffElapsed ==
    /\ pc = "backoff"
    /\ pc' = "attempt"
    /\ \E ms \in TimerFires(waits[Len(waits)]) : clock' = clock + ms
    /\ UNCHANGED <<provider, args, attempt, calls, waits, errs, data, outcome,
                   startTime, swVars, pureVars, analytics>>

\* the single network call of fetchLocationDetails / fetchSunEvents
SingleAttempt ==
    /\ provider \in {"bigdatacloud", "sunrisesunset"} /\ pc = "attempt"
    /\ calls' = calls + 1
    /\ \E ms \in CallMs : clock' = clock + ms
    /\ \E r \in Attempts(provider) :
        LET t == Thrown(provider, r) IN
        IF ~t.thrown
        THEN /\ data' = r.payload
             /\ Return(IF FormatThrows(provider, r.payload)
                       THEN Catch(provider, FormatError)
                       ELSE Success(provider, clock' - startTime))
             /\ UNCHANGED errs
        ELSE /\ errs' = Append(errs, [msg |-> t.msg, step |-> t.step])
             /\ data' = IF t.step = "schema" THEN r.payload ELSE data
             /\ Return(Catch(provider, t.msg))
    /\ UNCHANGED <<provider, args, attempt, waits, startTime, swVars, pureVars, analytics>>

(***************************************************************************)
(* MeteostatAPI: formatting a payload                                      *)
(*                                                                         *)
(* A JavaScript value is a record: t is what kind of value it is, v the    *)
(* number of a number (0 otherwise).  Wind speeds and precipitation        *)
(* amounts are in tenths of a unit.                                        *)
(***************************************************************************)
Undefined == [t |-> "undefined", v |-> 0]
Null == [t |-> "null", v |-> 0]
NaN == [t |-> "NaN", v |-> 0]
Num(n) == [t |-> "number", v |-> n]
Str(n) == [t |-> "string", v |-> n]

\* x !== null ? a : b
IfNotNull(x, a, b) == IF x.t # "null" THEN a ELSE b

\* x || ""  (a date string is not empty)
OrEmpty(x) == IF x.t = "string" THEN x ELSE Str(0)

\* x / 3.6 on tenths, for the values of the model (multiples of 3.6):
\* undefined / 3.6 is NaN, null / 3.6 is 0
DividedBy3_6(x) ==
    CASE x.t = "number" -> Num((x.v * 10) \div 36)
      [] x.t = "null" -> Num(0)
      [] OTHER -> NaN

\* a comparison with undefined (NaN) is false
LessThan(x, n) == x.t = "number" /\ x.v < n

_mapPrecipitationToCode(precipitation) ==
    IF precipitation.t = "null" \/ precipitation.t = "undefined"
        \/ (precipitation.t = "number" /\ precipitation.v = 0)
    THEN 0
    ELSE IF LessThan(precipitation, 20) THEN 61
    ELSE IF LessThan(precipitation, 50) THEN 63
    ELSE 65

\* the callback of map in _formatHistoricalData
FormatDay(day) ==
    [date |-> OrEmpty(day.date),
     temp_min |-> IfNotNull(day.tmin, day.tmin, Null),
     temp_max |-> IfNotNull(day.tmax, day.tmax, Null),
     temp_avg |-> IfNotNull(day.tavg, day.tavg, Null),
     precipitation |-> IfNotNull(day.prcp, day.prcp, Num(0)),
     wind_speed |-> IfNotNull(day.wspd, DividedBy3_6(day.wspd), Null),
     wind_direction |-> IfNotNull(day.wdir, day.wdir, Null),
     pressure |-> IfNotNull(day.pres, day.pres, Null),
     weather_code |-> Num(_mapPrecipitationToCode(day.prcp))]

\* (data.data || []).map(...): data.data is <<>> when missing
_formatHistoricalData(d) == [daily |-> [k \in DOMAIN d.data |-> FormatDay(d.data[k])]]

\* the rows of a Meteostat payload: a field is omitted, null or a number
Optional(n) == {Undefined, Null, Num(n)}

DayRecords ==
    [date : {Undefined, Str(1)},
     tmin : Optional(-3), tmax : Optional(4), tavg : Optional(1),
     prcp : {Undefined, Null, Num(0), Num(30)},
     wspd : Optional(180),
     wdir : Optional(270), pres : Optional(1013)]

\* the result of a function not yet applied
NotCalled == [called |-> FALSE, value |-> <<>>]

\* the result of a function that has returned
Returns(value) == [called |-> TRUE, value |-> value]

\* no pure function applied
PureQuiet ==
    /\ fn = "none"
    /\ input = <<>>
    /\ output = <<>>

\* localStorage.getItem(key) === null
NoItem == [has |-> FALSE, json |-> <<>>]

\* the page has not run analytics.js
AnalyticsQuiet ==
    analytics = [enabled |-> FALSE, events |-> <<>>, logged |-> 0, cleared |-> 0,
                 calls |-> 0,
                 storage |-> [enabled |-> "null", events |-> NoItem],
                 lastCall |-> [name |-> "none", result |-> "none"]]

(***************************************************************************)
(* Service worker: state                                                   *)
(***************************************************************************)
CACHE_NAME == "calchas-v1"

\* a cache generation left behind by an earlier version of the worker
OldCacheName == "calchas-v0"

\* the number of entries the failedRequests store can start with
MaxQueue == 2

\* the number of executions of retryFailedRequests in one behaviour
MaxDrains == 2

QueueIds == 1..MaxQueue

\* the persisted description of a failed request (keyPath "id")
Entry(i) ==
    [id |-> i,
     url |-> IF i = 1 THEN "/api/favorites" ELSE "/api/settings",
     attempts |-> 0]

NoEvent == [type |-> "none", tag |-> ""]

\* no install event yet; logged: the catch of the install handler has warned;
\* failing: the listed resources whose request addAll saw fail
IdleInstall == [pc |-> "idle", logged |-> FALSE, failing |-> {}]

\* no activate event yet; pending: the caches.delete calls not yet settled;
\* deleted: the names caches.delete has resolved for
IdleActivate == [pc |-> "idle", pending |-> {}, deleted |-> {}]

\* staleWhileRevalidate not called.  refresh, fresh: the state of
\* fetchPromise and the response it resolved with; settled, response: the
\* state of the promise the call returned
IdleSwr ==
    [pc |-> "idle", request |-> <<>>, hasCached |-> FALSE,
     refresh |-> "none", fresh |-> [status |-> 0, type |-> "none", body |-> ""],
     settled |-> "pending", response |-> [status |-> 0, type |-> "none", body |-> ""]]

LifeQuiet ==
    /\ installEv = IdleInstall
    /\ activateEv = IdleActivate
    /\ swr = IdleSwr

\* the worker before any event
SwQuiet ==
    /\ store = <<>>
    /\ drains = <<>>
    /\ cache = <<>>
    /\ fetchEv = <<>>
    /\ puts = {}
    /\ lastEvent = NoEvent
    /\ started = {}
    /\ LifeQuiet

\* the clock when the client is called
CallClocks == {1000}

\* the provider clients, not called
ProviderQuiet ==
    /\ provider = "visualcrossing"
    /\ args = CHOOSE a \in ArgsOf("visualcrossing") : TRUE
    /\ pc = "idle"
    /\ attempt = 0
    /\ calls = 0
    /\ waits = <<>>
    /\ errs = <<>>
    /\ data = NullPayload("visualcrossing")
    /\ outcome = NoOutcome
    /\ clock = 0
    /\ startTime = 0

ProviderInit ==
    /\ provider \in Providers
    /\ args \in ArgsOf(provider)
    /\ pc = "start"
    /\ attempt = 0
    /\ calls = 0
    /\ waits = <<>>
    /\ errs = <<>>
    /\ data = NullPayload(provider)
    /\ outcome = NoOutcome
    /\ clock \in CallClocks
    /\ startTime = 0
    /\ SwQuiet
    /\ PureQuiet
    /\ AnalyticsQuiet

ProviderNext ==
    \/ FetchWeatherPreconditions
    \/ FetchHistoricalPreconditions
    \/ FetchSimplePreconditions
    \/ RetryLoopAttempt
    \/ BackoffElapsed
    \/ SingleAttempt

SpecProvider == ProviderInit /\ [][ProviderNext]_vars

(***************************************************************************)
(* Service worker: the retry queue (sync events, retryFailedRequests)      *)
(***************************************************************************)
SyncTags == {"weather-update", "retry-failed-requests", "update-weather", "sync-favorites"}

\* the two "sync" listeners: what they start for a tag
SyncRoutines(tag) ==
    (IF tag = "weather-update" THEN {"updateWeatherData"} ELSE {})
        \cup (IF tag = "retry-failed-requests" THEN {"retryFailedRequests"} ELSE {})

\* a periodicsync listener that also drains the retry queue
PeriodicSyncRoutinesWithRetry(tag) ==
    (IF tag = "update-weather" THEN {"updateWeatherData"} ELSE {})
        \cup (IF tag = "sync-favorites"
              THEN {"syncFavoritesData", "retryFailedRequests"} ELSE {})

\* the "periodicsync" listener: what it starts for a tag
PeriodicSyncRoutines(tag) ==
    (IF tag = "update-weather" THEN {"updateWeatherData"} ELSE {})
        \cup (IF tag = "sync-favorites" THEN {"syncFavoritesData"} ELSE {})

\* store.getAll(): the entries in key order
RECURSIVE InKeyOrder(_, _)
InKeyOrder(st, from) ==
    IF from > MaxQueue THEN <<>>
    ELSE IF from \in DOMAIN st
         THEN <<st[from]>> \o InKeyOrder(st, from + 1)
         ELSE InKeyOrder(st, from + 1)

getFailedRequests(st) == InKeyOrder(st, 1)

\* store.delete(id)
removeFailedRequest(st, id) == [k \in DOMAIN st \ {id} |-> st[k]]

\* a call of retryFailedRequests, suspended at `await openIndexedDB()`.
\* Besides the locals (failedRequests, the position i of the for-of loop) the
\* record keeps what the call has done: replays, the ids fetch was called
\* for, in order; ok, the ids whose fetch returned an ok response; clean,
\* no replay has failed so far; and how it started: its trigger, the store
\* at that moment, and solo, no other call was running then
NewDrain(ev) ==
    [pc |-> "open", failedRequests |-> <<>>, i |-> 0,
     trigger |-> ev, atStart |-> store, ok |-> {}, replays |-> <<>>,
     solo |-> \A k \in DOMAIN drains : drains[k].pc = "done",
     clean |-> TRUE]

\* the handlers of an event start their routines: retryFailedRequests runs
\* up to its first await
Dispatch(ev, routines) ==
    /\ "retryFailedRequests" \in routines => Len(drains) < MaxDrains
    /\ lastEvent' = ev
    /\ started' = routines
    /\ drains' = IF "retryFailedRequests" \in routines
                 THEN Append(drains, NewDrain(ev))
                 ELSE drains
    /\ UNCHANGED <<store, cache, fetchEv, puts, provVars, lifeVars, pureVars, analytics>>

SyncEvent ==
    \E tag \in SyncTags :
        Dispatch([type |-> "sync", tag |-> tag], SyncRoutines(tag))

PeriodicSyncEvent ==
    \E tag \in SyncTags :
        Dispatch([type |-> "periodicsync", tag |-> tag], PeriodicSyncRoutines(tag))

Running(d) == drains[d].pc # "done"

\* retryFailedRequests has returned: its locals are gone.  passed: the call
\* went through the whole loop and no replay failed
Returned(dr, passed) ==
    [pc |-> "done", failedRequests |-> <<>>, i |-> 0,
     trigger |-> dr.trigger, atStart |-> <<>>, ok |-> {}, replays |-> <<>>,
     solo |-> FALSE, clean |-> passed]

\* a for-of loop without the inner try/catch: it is left when a replay fails
NextEntryUntilFailure(dr) ==
    IF dr.i < Len(dr.failedRequests) /\ dr.clean
    THEN [dr EXCEPT !.pc = "fetch", !.i = dr.i + 1,
                    !.replays = Append(@, dr.failedRequests[dr.i + 1].id)]
    ELSE Returned(dr, dr.clean)

\* the loop moves on from entry i of drain d, or ends
NextEntry(dr) ==
    IF dr.i < Len(dr.failedRequests)
    THEN [dr EXCEPT !.pc = "fetch", !.i = dr.i + 1,
                    !.replays = Append(@, dr.failedRequests[dr.i + 1].id)]
    ELSE Returned(dr, dr.clean)

\* openIndexedDB settles; a rejection lands in the outer catch
DrainOpened ==
    \E d \in DOMAIN drains :
        /\ drains[d].pc = "open"
        /\ \E opened \in BOOLEAN :
            drains' = [drains EXCEPT ![d] =
                IF opened THEN [@ EXCEPT !.pc = "getAll"] ELSE Returned(@, FALSE)]
        /\ UNCHANGED <<store, cache, fetchEv, puts, lastEvent, started, provVars, lifeVars, pureVars, analytics>>

\* getFailedRequests settles; the loop starts with the first entry
DrainGotAll ==
    \E d \in DOMAIN drains :
        /\ drains[d].pc = "getAll"
        /\ \E read \in BOOLEAN :
            drains' = [drains EXCEPT ![d] =
                IF read
                THEN NextEntry([@ EXCEPT !.failedRequests = getFailedRequests(store)])
                ELSE Returned(@, FALSE)]
        /\ UNCHANGED <<store, cache, fetchEv, puts, lastEvent, started, provVars, lifeVars, pureVars, analytics>>

\* the replay fetch of the current entry settles: ok, not ok, or it throws
DrainFetched ==
    \E d \in DOMAIN drains :
        /\ drains[d].pc = "fetch"
        /\ \E res \in {"ok", "notok", "threw"} :
            LET dr == drains[d]
                req == dr.failedRequests[dr.i]
            IN drains' = [drains EXCEPT ![d] =
                   IF res = "ok"
                   THEN [dr EXCEPT !.pc = "remove", !.ok = @ \cup {req.id}]
                   ELSE NextEntry([dr EXCEPT !.clean = FALSE])]
        /\ UNCHANGED <<store, cache, fetchEv, puts, lastEvent, started, provVars, lifeVars, pureVars, analytics>>

\* removeFailedRequest settles; a rejection lands in the inner catch
DrainRemoved ==
    \E d \in DOMAIN drains :
        /\ drains[d].pc = "remove"
        /\ \E deleted \in BOOLEAN :
            LET dr == drains[d]
                req == dr.failedRequests[dr.i]
            IN /\ store' = IF deleted THEN removeFailedRequest(store, req.id) ELSE store
               /\ drains' = [drains EXCEPT ![d] = NextEntry(dr)]
        /\ UNCHANGED <<cache, fetchEv, puts, lastEvent, started, provVars, lifeVars, pureVars, analytics>>

QueueInit ==
    /\ \E ids \in SUBSET QueueIds : store = [i \in ids |-> Entry(i)]
    /\ drains = <<>>
    /\ cache = <<>>
    /\ fetchEv = <<>>
    /\ puts = {}
    /\ lastEvent = NoEvent
    /\ started = {}
    /\ LifeQuiet
    /\ ProviderQuiet
    /\ PureQuiet
    /\ AnalyticsQuiet

QueueNext ==
    \/ SyncEvent
    \/ PeriodicSyncEvent
    \/ DrainOpened
    \/ DrainGotAll
    \/ DrainFetched
    \/ DrainRemoved

SpecQueue == QueueInit /\ [][QueueNext]_vars

(***************************************************************************)
(* Service worker: the fetch handler and the shell cache                   *)
(***************************************************************************)
\* a URL is <<protocol, host, path and query>>; the worker's own origin is
\* https on host "self"
Url(protocol, host, path) == <<protocol, host, path>>

IsSubstring(part, text) ==
    \/ part = text
    \/ part = "api.open-meteo.com" /\ text = "geocoding-api.open-meteo.com"
    \/ part = "api.brightsky.dev" /\ text = "/proxy?u=api.brightsky.dev"

\* request.url.includes(part)
Includes(url, part) == \E k \in DOMAIN url : IsSubstring(part, url[k])

AppJs == Url("https:", "self", "/src/app.js")
LogoPng == Url("https:", "self", "/img/logo.png")

Requests ==
    {AppJs, LogoPng,
     Url("https:", "self", "/proxy?u=api.brightsky.dev"),
     Url("https:", "self", "/api/favorites"),
     Url("https:", "api.open-meteo.com", "/v1/forecast"),
     Url("https:", "api.brightsky.dev", "/weather"),
     Url("https:", "nominatim.openstreetmap.org", "/search"),
     Url("https:", "geocoding-api.open-meteo.com", "/v1/search"),
     Url("https:", "weather.visualcrossing.com", "/timeline"),
     Url("https:", "api.meteostat.net", "/v2/daily"),
     Url("chrome-extension:", "self", "/inject.js")}

\* a test that leaves out one of the hosts
IsApiRequestWithoutNominatim(url) ==
    \/ Includes(url, "api.open-meteo.com")
    \/ Includes(url, "api.brightsky.dev")
    \/ Includes(url, "geocoding-api.open-meteo.com")

\* the test at the head of the fetch listener
IsApiRequest(url) ==
    \/ Includes(url, "api.open-meteo.com")
    \/ Includes(url, "api.brightsky.dev")
    \/ Includes(url, "nominatim.openstreetmap.org")
    \/ Includes(url, "geocoding-api.open-meteo.com")

\* reqUrl.origin === self.location.origin
SameOrigin(url) == url[1] = "https:" /\ url[2] = "self"

Response(status, type, body) == [status |-> status, type |-> type, body |-> body]

NoResponse == Response(0, "none", "")

\* new Response("Offline - ...", { status: 503 })
OfflineResponse == Response(503, "default", "offline")

\* what the network can answer to a request
NetworkResponses(url) ==
    IF url[2] = "self"
    THEN {Response(st, "basic", "network") : st \in {200, 404, 500}}
    ELSE {Response(200, "cors", "network"), Response(0, "opaque", "network")}

\* a test that forgets the origin
ShouldCacheAnyOrigin(url, response) ==
    /\ response.status = 200 /\ response.type # "error"
    /\ url[1] \in {"http:", "https:"}

\* response && response.status === 200 && response.type !== "error", an
\* http(s) URL, and the worker's origin
ShouldCache(url, response) ==
    /\ response.status = 200 /\ response.type # "error"
    /\ url[1] \in {"http:", "https:"}
    /\ SameOrigin(url)

\* a second generation left behind, older still
OlderCacheName == "calchas-beta"

\* caches.match(request): the first match over the caches in creation order
CacheOrder == <<OlderCacheName, OldCacheName, CACHE_NAME>>

RECURSIVE MatchFrom(_, _, _)
MatchFrom(c, url, k) ==
    IF k > Len(CacheOrder) THEN NoResponse
    ELSE IF CacheOrder[k] \in DOMAIN c /\ url \in DOMAIN c[CacheOrder[k]]
         THEN c[CacheOrder[k]][url]
         ELSE MatchFrom(c, url, k + 1)

cachesMatch(c, url) == MatchFrom(c, url, 1)

\* caches.open(name): the cache is created when it does not exist
cachesOpen(c, name) ==
    IF name \in DOMAIN c THEN c
    ELSE [n \in DOMAIN c \cup {name} |-> IF n = name THEN <<>> ELSE c[n]]

\* cache.put(url, response) on the named cache
cachePut(c, name, url, response) ==
    [cachesOpen(c, name) EXCEPT ![name] =
        [u \in DOMAIN @ \cup {url} |-> IF u = url THEN response ELSE @[u]]]

IdleFetch == [pc |-> "idle", request |-> AppJs, response |-> NoResponse, failed |-> FALSE]

\* a fetch event arrives: API requests are left to the browser, for the
\* others respondWith(fetch(request)...) is called
FetchEvent ==
    /\ fetchEv.pc \in {"idle", "responded", "passthrough"}
    /\ \E url \in Requests :
        fetchEv' = [pc |-> IF IsApiRequest(url) THEN "passthrough" ELSE "network",
                    request |-> url, response |-> NoResponse, failed |-> FALSE]
    /\ UNCHANGED <<store, drains, cache, puts, lastEvent, started, provVars, lifeVars, pureVars, analytics>>

\* fetch(request) resolves: the response is put in the cache when it should
\* be, and is returned
FetchResolved ==
    /\ fetchEv.pc = "network"
    /\ \E response \in NetworkResponses(fetchEv.request) :
        /\ fetchEv' = [fetchEv EXCEPT !.pc = "responded", !.response = response]
        /\ puts' = IF ShouldCache(fetchEv.request, response)
                   THEN puts \cup {[url |-> fetchEv.request, response |-> response]}
                   ELSE puts
    /\ UNCHANGED <<store, drains, cache, lastEvent, started, provVars, lifeVars, pureVars, analytics>>

\* fetch(request) rejects: caches.match(request) is asked
FetchRejected ==
    /\ fetchEv.pc = "network"
    /\ fetchEv' = [fetchEv EXCEPT !.pc = "match", !.failed = TRUE]
    /\ UNCHANGED <<store, drains, cache, puts, lastEvent, started, provVars, lifeVars, pureVars, analytics>>

\* a fallback that hands on whatever caches.match gave
FallbackWithoutOffline ==
    /\ fetchEv.pc = "match"
    /\ fetchEv' = [fetchEv EXCEPT
            !.pc = "responded",
            !.response = cachesMatch(cache, fetchEv.request)]
    /\ UNCHANGED <<store, drains, cache, puts, lastEvent, started, provVars, lifeVars, pureVars, analytics>>

\* caches.match resolves: response || new Response(..., { status: 503 })
FallbackMatched ==
    /\ fetchEv.pc = "match"
    /\ fetchEv' = [fetchEv EXCEPT
            !.pc = "responded",
            !.response = IF cachesMatch(cache, fetchEv.request) # NoResponse
                         THEN cachesMatch(cache, fetchEv.request)
                         ELSE OfflineResponse]
    /\ UNCHANGED <<store, drains, cache, puts, lastEvent, started, provVars, lifeVars, pureVars, analytics>>

\* caches.open(CACHE_NAME).then(cache => cache.put(href, clone)) settles;
\* a failed put is logged
PutSettled ==
    \E p \in puts :
        /\ puts' = puts \ {p}
        /\ \E stored \in BOOLEAN :
            cache' = IF stored
                     THEN cachePut(cache, CACHE_NAME, p.url, p.response)
                     ELSE cachesOpen(cache, CACHE_NAME)
        /\ UNCHANGED <<store, drains, fetchEv, lastEvent, started, provVars, lifeVars, pureVars, analytics>>

\* the generations present when the worker starts handling fetch events
OldGenerations ==
    {<<>>,
     [n \in {OldCacheName} |->
        [u \in {AppJs, LogoPng} |-> Response(200, "basic", "old")]]}

ShellInit ==
    /\ \E old \in OldGenerations, shell \in SUBSET {AppJs} :
        cache = IF shell = {} THEN old
                ELSE cachePut(old, CACHE_NAME, AppJs, Response(200, "basic", "installed"))
    /\ \E ids \in SUBSET QueueIds : store = [i \in ids |-> Entry(i)]
    /\ drains = <<>>
    /\ fetchEv = IdleFetch
    /\ puts = {}
    /\ lastEvent = NoEvent
    /\ started = {}
    /\ LifeQuiet
    /\ ProviderQuiet
    /\ PureQuiet
    /\ AnalyticsQuiet

ShellNext ==
    \/ FetchEvent
    \/ FetchResolved
    \/ FetchRejected
    \/ FallbackMatched
    \/ PutSettled

SpecShell == ShellInit /\ [][ShellNext]_vars

(***************************************************************************)
(* Service worker: staleWhileRevalidate                                    *)
(***************************************************************************)
\* a call of staleWhileRevalidate(request), suspended at
\* `await caches.match(request)`
SwrCall ==
    /\ \/ swr.pc = "idle"
       \/ swr.pc = "returned" /\ swr.refresh \in {"resolved", "rejected"}
    /\ \E url \in Requests :
        swr' = [pc |-> "match", request |-> url, hasCached |-> FALSE,
                refresh |-> "none", fresh |-> NoResponse,
                settled |-> "pending", response |-> NoResponse]
    /\ UNCHANGED <<store, drains, cache, fetchEv, puts, lastEvent, started,
                   installEv, activateEv, provVars, pureVars, analytics>>

\* a function that always hands on the promise of the refresh
SwrAwaitsRefresh(cached) == [settled |-> "pending", response |-> NoResponse]

\* return cached || fetchPromise: what the call's promise is settled with
\* when the function returns
SwrReturn(cached) ==
    IF cached # NoResponse
    THEN [settled |-> "resolved", response |-> cached]
    ELSE [settled |-> "pending", response |-> NoResponse]

\* caches.match settles; fetch(request) is issued and the function returns
SwrMatched ==
    /\ swr.pc = "match"
    /\ LET cached == cachesMatch(cache, swr.request) IN
        swr' = [swr EXCEPT
            !.pc = "returned",
            !.hasCached = cached # NoResponse,
            !.refresh = "pending",
            !.settled = SwrReturn(cached).settled,
            !.response = SwrReturn(cached).response]
    /\ UNCHANGED <<store, drains, cache, fetchEv, puts, lastEvent, started,
                   installEv, activateEv, provVars, pureVars, analytics>>

\* the tests before cache.put in the refresh: status 200, not an error
\* response, an http(s) URL of the worker's origin
SwrShouldCache(url, response) ==
    /\ ~(response.status # 200 \/ response.type = "error")
    /\ url[1] = "http:" \/ url[1] = "https:"
    /\ SameOrigin(url)

\* fetch(request) of the refresh resolves: the response is put in the
\* current generation when it should be; a call that had no cached response
\* is settled with it
SwrFetchResolved ==
    /\ swr.pc = "returned" /\ swr.refresh = "pending"
    /\ \E response \in NetworkResponses(swr.request) :
        /\ swr' = IF swr.settled = "pending"
                  THEN [swr EXCEPT !.refresh = "resolved", !.fresh = response,
                                   !.settled = "resolved", !.response = response]
                  ELSE [swr EXCEPT !.refresh = "resolved", !.fresh = response]
        /\ puts' = IF SwrShouldCache(swr.request, response)
                   THEN puts \cup {[url |-> swr.request, response |-> response]}
                   ELSE puts
    /\ UNCHANGED <<store, drains, cache, fetchEv, lastEvent, started,
                   installEv, activateEv, provVars, pureVars, analytics>>

\* fetch(request) of the refresh rejects: a call that had no cached
\* response is rejected with it
SwrFetchRejected ==
    /\ swr.pc = "returned" /\ swr.refresh = "pending"
    /\ swr' = IF swr.settled = "pending"
              THEN [swr EXCEPT !.refresh = "rejected", !.settled = "rejected"]
              ELSE [swr EXCEPT !.refresh = "rejected"]
    /\ UNCHANGED <<store, drains, cache, fetchEv, puts, lastEvent, started,
                   installEv, activateEv, provVars, pureVars, analytics>>

SwrInit ==
    /\ \E old \in OldGenerations, shell \in SUBSET {AppJs} :
        cache = IF shell = {} THEN old
                ELSE cachePut(old, CACHE_NAME, AppJs, Response(200, "basic", "installed"))
    /\ store = <<>>
    /\ drains = <<>>
    /\ fetchEv = IdleFetch
    /\ puts = {}
    /\ lastEvent = NoEvent
    /\ started = {}
    /\ LifeQuiet
    /\ ProviderQuiet
    /\ PureQuiet
    /\ AnalyticsQuiet

SwrNext ==
    \/ SwrCall
    \/ SwrMatched
    \/ SwrFetchResolved
    \/ SwrFetchRejected
    \/ PutSettled

SpecSwr == SwrInit /\ [][SwrNext]_vars

(***************************************************************************)
(* Service worker: install and activate                                    *)
(***************************************************************************)
\* the app-shell resources (two of the thirteen listed)
urlsToCache == {Url("https:", "self", "/"), AppJs}

\* caches.delete(name)
cachesDelete(c, name) == [n \in DOMAIN c \ {name} |-> c[n]]

\* cache.addAll(urls) when every request was answered with an ok response
cacheAddAll(c, name, urls) ==
    [cachesOpen(c, name) EXCEPT ![name] =
        [u \in DOMAIN @ \cup urls |->
            IF u \in urls THEN Response(200, "basic", "installed") ELSE @[u]]]

\* the install event: waitUntil(caches.open(CACHE_NAME).then(...).catch(...))
\* and skipWaiting()
InstallEvent ==
    /\ installEv.pc = "idle"
    /\ installEv' = [installEv EXCEPT !.pc = "open"]
    /\ UNCHANGED <<store, drains, cache, fetchEv, puts, lastEvent, started,
                   activateEv, swr, provVars, pureVars, analytics>>

\* a chain without the catch: the rejection reaches waitUntil
InstallRejects(ev) == [ev EXCEPT !.pc = "rejected"]

\* .catch((err) => { console.warn(...); return Promise.resolve(); })
InstallCatch(ev) == [ev EXCEPT !.pc = "resolved", !.logged = TRUE]

\* caches.open(CACHE_NAME) settles
InstallOpened ==
    /\ installEv.pc = "open"
    /\ \E opened \in BOOLEAN :
        IF opened
        THEN /\ cache' = cachesOpen(cache, CACHE_NAME)
             /\ installEv' = [installEv EXCEPT !.pc = "addAll"]
        ELSE /\ cache' = cache
             /\ installEv' = InstallCatch(installEv)
    /\ UNCHANGED <<store, drains, fetchEv, puts, lastEvent, started,
                   activateEv, swr, provVars, pureVars, analytics>>

\* cache.addAll(urlsToCache) settles: it stores the responses when all the
\* requests were answered with an ok response, and rejects, storing none,
\* when some were not
InstallAddAllSettled ==
    /\ installEv.pc = "addAll"
    /\ \E failing \in SUBSET urlsToCache :
        IF failing = {}
        THEN /\ cache' = cacheAddAll(cache, CACHE_NAME, urlsToCache)
             /\ installEv' = [installEv EXCEPT !.pc = "resolved"]
        ELSE /\ cache' = cache
             /\ installEv' = InstallCatch([installEv EXCEPT !.failing = failing])
    /\ UNCHANGED <<store, drains, fetchEv, puts, lastEvent, started,
                   activateEv, swr, provVars, pureVars, analytics>>

\* the activate event, dispatched when the install promise has resolved:
\* waitUntil(caches.keys().then(...)) and clients.claim()
ActivateEvent ==
    /\ installEv.pc = "resolved" /\ activateEv.pc = "idle"
    /\ activateEv' = [activateEv EXCEPT !.pc = "keys"]
    /\ UNCHANGED <<store, drains, cache, fetchEv, puts, lastEvent, started,
                   installEv, swr, provVars, pureVars, analytics>>

\* an activate handler that deletes every cache
DeletesEvery(cacheNames) == cacheNames

\* the names caches.delete is called for: cacheName !== CACHE_NAME
Deletes(cacheNames) == {cacheName \in cacheNames : cacheName # CACHE_NAME}

\* caches.keys() resolves: caches.delete is called for the old names, and
\* Promise.all of no promise resolves at once
ActivateKeys ==
    /\ activateEv.pc = "keys"
    /\ activateEv' =
        [pc |-> IF Deletes(DOMAIN cache) = {} THEN "resolved" ELSE "deleting",
         pending |-> Deletes(DOMAIN cache), deleted |-> {}]
    /\ UNCHANGED <<store, drains, cache, fetchEv, puts, lastEvent, started,
                   installEv, swr, provVars, pureVars, analytics>>

\* one caches.delete settles.  Promise.all rejects with the first rejection
\* (the other deletions go on) and resolves when all have resolved
ActivateDeleteSettled ==
    /\ activateEv.pc \in {"deleting", "rejected"}
    /\ \E cacheName \in activateEv.pending, deleted \in BOOLEAN :
        /\ cache' = IF deleted THEN cachesDelete(cache, cacheName) ELSE cache
        /\ activateEv' =
            [pc |-> IF ~deleted THEN "rejected"
                    ELSE IF activateEv.pc = "deleting"
                            /\ activateEv.pending = {cacheName}
                         THEN "resolved"
                         ELSE activateEv.pc,
             pending |-> activateEv.pending \ {cacheName},
             deleted |-> IF deleted THEN activateEv.deleted \cup {cacheName}
                         ELSE activateEv.deleted]
    /\ UNCHANGED <<store, drains, fetchEv, puts, lastEvent, started,
                   installEv, swr, provVars, pureVars, analytics>>

\* the caches an earlier version of the app can have left, and a cache of
\* the current name from an earlier installation
LeftBehind ==
    {[n \in names |-> [u \in {AppJs, LogoPng} |-> Response(200, "basic", "old")]] :
        names \in SUBSET {OlderCacheName, OldCacheName, CACHE_NAME}}

LifecycleInit ==
    /\ cache \in LeftBehind
    /\ store = <<>>
    /\ drains = <<>>
    /\ fetchEv = IdleFetch
    /\ puts = {}
    /\ lastEvent = NoEvent
    /\ started = {}
    /\ LifeQuiet
    /\ ProviderQuiet
    /\ PureQuiet
    /\ AnalyticsQuiet

LifecycleNext ==
    \/ InstallEvent
    \/ InstallOpened
    \/ InstallAddAllSettled
    \/ ActivateEvent
    \/ ActivateKeys
    \/ ActivateDeleteSettled

SpecLifecycle == LifecycleInit /\ [][LifecycleNext]_vars

(***************************************************************************)
(* MeteostatAPI._formatHistoricalData applied to a payload                 *)
(***************************************************************************)
(***************************************************************************)
(* VisualCrossingAPI._mapWeatherCondition.  A condition text is a sequence *)
(* of words; the empty sequence stands for a missing or empty text.        *)
(***************************************************************************)
ConditionWords ==
    {"Clear", "Sunny", "Partly", "Mostly", "Cloudy", "Overcast", "Drizzle",
     "Light", "Rain", "Heavy", "Intense", "Snow", "Thunderstorm", "Fog",
     "Windy", "Hail"}

\* word.toLowerCase()
LowerCaseWord(word) ==
    CASE word = "Clear" -> "clear"
      [] word = "Sunny" -> "sunny"
      [] word = "Partly" -> "partly"
      [] word = "Mostly" -> "mostly"
      [] word = "Cloudy" -> "cloudy"
      [] word = "Overcast" -> "overcast"
      [] word = "Drizzle" -> "drizzle"
      [] word = "Light" -> "light"
      [] word = "Rain" -> "rain"
      [] word = "Heavy" -> "heavy"
      [] word = "Intense" -> "intense"
      [] word = "Snow" -> "snow"
      [] word = "Thunderstorm" -> "thunderstorm"
      [] word = "Fog" -> "fog"
      [] word = "Windy" -> "windy"
      [] word = "Hail" -> "hail"
      [] OTHER -> word

\* conditions.toLowerCase()
toLowerCase(conditions) == [k \in DOMAIN conditions |-> LowerCaseWord(conditions[k])]

\* part is a substring of the word
WordIncludes(word, part) ==
    \/ word = part
    \/ word = "windy" /\ part = "wind"

\* cond.includes(phrase) for a phrase of one or two words
CondIncludes(cond, phrase) ==
    \E i \in DOMAIN cond :
        IF Len(phrase) = 1
        THEN WordIncludes(cond[i], phrase[1])
        ELSE /\ i + 1 \in DOMAIN cond
             /\ cond[i] = phrase[1] /\ cond[i + 1] = phrase[2]

_mapWeatherCondition(conditions) ==
    IF conditions = <<>> THEN 3
    ELSE LET cond == toLowerCase(conditions)
             has(phrase) == CondIncludes(cond, phrase)
         IN IF has(<<"clear">>) \/ has(<<"sunny">>) THEN 0
            ELSE IF has(<<"partly", "cloudy">>) \/ has(<<"mostly", "clear">>) THEN 2
            ELSE IF has(<<"cloudy">>) \/ has(<<"overcast">>) THEN 3
            ELSE IF has(<<"drizzle">>) \/ has(<<"light", "rain">>) THEN 51
            ELSE IF has(<<"rain">>) THEN 63
            ELSE IF has(<<"heavy", "rain">>) \/ has(<<"intense", "rain">>) THEN 65
            ELSE IF has(<<"snow">>) THEN 71
            ELSE IF has(<<"thunderstorm">>) \/ has(<<"severe">>) \/ has(<<"tornado">>)
                 THEN 95
            ELSE IF has(<<"fog">>) \/ has(<<"mist">>) THEN 45
            ELSE IF has(<<"wind">>) THEN 3
            ELSE 3

\* the longest condition text, in words
MaxWords == 2

\* the condition texts of up to MaxWords words
ConditionTexts == UNION {[1..n -> ConditionWords] : n \in 0..MaxWords}

\* the payloads: no data array, or an array of one row
FormatInputs == {[data |-> <<>>]} \cup {[data |-> <<day>>] : day \in DayRecords}

\* precipitation amounts (tenths of a mm) around the limits of the mapping
Amounts == {Undefined, Null} \cup {Num(n) : n \in {0, 1, 19, 20, 21, 49, 50, 51, 300}}

\* the functions applied and their arguments
PureInputs(f) ==
    CASE f = "_formatHistoricalData" -> FormatInputs
      [] f = "_mapPrecipitationToCode" -> Amounts
      [] f = "_mapWeatherCondition" -> ConditionTexts

FormatInit ==
    /\ fn \in {"_formatHistoricalData", "_mapPrecipitationToCode", "_mapWeatherCondition"}
    /\ input \in PureInputs(fn)
    /\ output = NotCalled
    /\ SwQuiet
    /\ ProviderQuiet
    /\ AnalyticsQuiet

\* formatted = this._formatHistoricalData(data)
FormatCall ==
    /\ fn = "_formatHistoricalData" /\ ~output.called
    /\ output' = Returns(_formatHistoricalData(input))
    /\ UNCHANGED <<fn, input, provVars, swVars, analytics>>

\* this._mapPrecipitationToCode(precipitation)
MapPrecipitationCall ==
    /\ fn = "_mapPrecipitationToCode" /\ ~output.called
    /\ output' = Returns(_mapPrecipitationToCode(input))
    /\ UNCHANGED <<fn, input, provVars, swVars, analytics>>

\* this._mapWeatherCondition(conditions)
MapConditionCall ==
    /\ fn = "_mapWeatherCondition" /\ ~output.called
    /\ output' = Returns(_mapWeatherCondition(input))
    /\ UNCHANGED <<fn, input, provVars, swVars, analytics>>

FormatNext ==
    \/ FormatCall
    \/ MapPrecipitationCall
    \/ MapConditionCall

SpecFormat == FormatInit /\ [][FormatNext]_vars

(***************************************************************************)
(* The Analytics singleton (utils/analytics.js).  `analytics` holds        *)
(*   enabled, events   this.enabled, this.events                           *)
(*   storage           localStorage 'analytics-enabled', 'analytics-events'*)
(*   logged            how many events were ever pushed: the source of the *)
(*                     events' timestamps                                  *)
(*   cleared           `logged` when this.events was last emptied          *)
(*   calls             log calls recorded since the initial state          *)
(*   lastCall          the last method called and how it ended             *)
(***************************************************************************)
\* this.maxEvents = 1000
maxEvents == 1000

\* this.events.slice(-100)
RecentCount == 100

\* log calls recorded in one run
MaxCalls == 2

\* the event logEvent builds; the timestamp orders the events
Event(timestamp, eventName) == [timestamp |-> timestamp, eventName |-> eventName]

\* JSON.stringify(events): the text of each event, in order
JSONstringify(events) ==
    [k \in DOMAIN events |-> <<"timestamp", events[k].timestamp,
                                "eventName", events[k].eventName>>]

\* the value localStorage holds under a key
Item(json) == [has |-> TRUE, json |-> json]

\* a slice that keeps the head of the list
sliceHead(events, n) ==
    IF Len(events) <= n THEN events ELSE SubSeq(events, 1, n)

\* events.slice(-n)
slice(events, n) ==
    IF Len(events) <= n THEN events
    ELSE SubSeq(events, Len(events) - n + 1, Len(events))

\* events.shift()
shift(events) == Tail(events)

\* _saveToLocalStorage(): setItem stores the text, or throws (quota) and the
\* catch only warns
_saveToLocalStorage(events, storage, stored) ==
    IF stored
    THEN [storage EXCEPT !.events = Item(JSONstringify(slice(events, RecentCount)))]
    ELSE storage

\* a logEvent that does not look at this.enabled
RecordsAlways(a) == TRUE

\* logEvent goes on past `if (!this.enabled) return;`
Records(a) == a.enabled

\* logEvent(eventName, eventData), called as `caller`
logEvent(a, caller, eventName, stored) ==
    IF ~Records(a)
    THEN [a EXCEPT !.lastCall = [name |-> caller, result |-> "ignored"]]
    ELSE LET pushed == Append(a.events, Event(a.logged + 1, eventName))
             kept == IF Len(pushed) > maxEvents THEN shift(pushed) ELSE pushed
         IN [a EXCEPT
                !.events = kept,
                !.logged = @ + 1,
                !.calls = @ + 1,
                !.storage = _saveToLocalStorage(kept, a.storage, stored),
                !.lastCall = [name |-> caller,
                              result |-> IF stored THEN "saved" ELSE "unsaved"]]

\* a further log call is within the run's bound, or will be ignored
CanLog == ~Records(analytics) \/ analytics.calls < MaxCalls

OtherVars == <<provVars, swVars, pureVars>>

\* analytics.logEvent(name, data) with a name of the caller's own
LogEvent ==
    /\ CanLog
    /\ \E stored \in BOOLEAN :
        analytics' = logEvent(analytics, "logEvent", "custom", stored)
    /\ UNCHANGED OtherVars

\* analytics.logSearch(query, resultCount, durationMs)
LogSearch ==
    /\ CanLog
    /\ \E stored \in BOOLEAN :
        analytics' = logEvent(analytics, "logSearch", "search", stored)
    /\ UNCHANGED OtherVars

\* analytics.logFavorite(action, locationName)
LogFavorite ==
    /\ CanLog
    /\ \E stored \in BOOLEAN, name \in {"favorite-added", "favorite-removed"} :
        analytics' = logEvent(analytics, "logFavorite", name, stored)
    /\ UNCHANGED OtherVars

\* analytics.logApiCall(apiName, endpoint, statusCode, durationMs, fromCache)
LogApiCall ==
    /\ CanLog
    /\ \E stored \in BOOLEAN :
        analytics' = logEvent(analytics, "logApiCall", "api-call", stored)
    /\ UNCHANGED OtherVars

\* analytics.logError(errorType, errorMessage, context)
LogError ==
    /\ CanLog
    /\ \E stored \in BOOLEAN :
        analytics' = logEvent(analytics, "logError", "error", stored)
    /\ UNCHANGED OtherVars

\* enable(): setItem('analytics-enabled', 'true') stores, or throws before
\* this.enabled is set
Enable ==
    /\ \E stored \in BOOLEAN :
        analytics' =
            IF stored
            THEN [analytics EXCEPT !.storage.enabled = "true", !.enabled = TRUE,
                                   !.lastCall = [name |-> "enable", result |-> "done"]]
            ELSE [analytics EXCEPT !.lastCall = [name |-> "enable", result |-> "threw"]]
    /\ UNCHANGED OtherVars

\* disable(): setItem('analytics-enabled', 'false') stores, or throws before
\* this.enabled is set
Disable ==
    /\ \E stored \in BOOLEAN :
        analytics' =
            IF stored
            THEN [analytics EXCEPT !.storage.enabled = "false", !.enabled = FALSE,
                                   !.lastCall = [name |-> "disable", result |-> "done"]]
            ELSE [analytics EXCEPT !.lastCall = [name |-> "disable", result |-> "threw"]]
    /\ UNCHANGED OtherVars

\* clear()
Clear ==
    /\ analytics' = [analytics EXCEPT
            !.events = <<>>,
            !.cleared = analytics.logged,
            !.storage.events = NoItem,
            !.lastCall = [name |-> "clear", result |-> "done"]]
    /\ UNCHANGED OtherVars

\* _isAnalyticsEnabled()
_isAnalyticsEnabled(storage) == storage.enabled = "true"

\* the page is loaded again: window.analytics = new Analytics()
Constructor ==
    /\ analytics' = [analytics EXCEPT
            !.enabled = _isAnalyticsEnabled(analytics.storage),
            !.events = <<>>,
            !.cleared = analytics.logged,
            !.lastCall = [name |-> "constructor", result |-> "done"]]
    /\ UNCHANGED OtherVars

\* the events of n logSearch calls
Searches(n) == [k \in 1..n |-> Event(k, "search")]

\* how many events the singleton has logged when the run starts
Prefilled == {0, RecentCount - 1, maxEvents - 1}

\* the singleton just constructed, with what an earlier page load left in
\* localStorage, or after enable() and n saved logSearch calls, and possibly
\* disable()
AnalyticsInit ==
    /\ \E n \in Prefilled, flag \in {"null", "true", "false"},
          left \in {NoItem, Item(JSONstringify(<<Event(0, "search")>>))} :
        /\ n > 0 => (flag # "null" /\ left = NoItem)
        /\ analytics =
            [enabled |-> _isAnalyticsEnabled([enabled |-> flag]),
             events |-> Searches(n), logged |-> n, cleared |-> 0, calls |-> 0,
             storage |-> [enabled |-> flag,
                          events |-> IF n = 0 THEN left
                                     ELSE Item(JSONstringify(slice(Searches(n), RecentCount)))],
             lastCall |-> IF n = 0 THEN [name |-> "constructor", result |-> "done"]
                          ELSE IF flag = "true" THEN [name |-> "logSearch", result |-> "saved"]
                          ELSE [name |-> "disable", result |-> "done"]]
    /\ SwQuiet
    /\ ProviderQuiet
    /\ PureQuiet

AnalyticsNext ==
    \/ Constructor
    \/ Enable
    \/ Disable
    \/ LogEvent
    \/ LogSearch
    \/ LogFavorite
    \/ LogApiCall
    \/ LogError
    \/ Clear

SpecAnalytics == AnalyticsInit /\ [][AnalyticsNext]_vars

(***************************************************************************)
(* Properties of the provider clients                                      *)
(***************************************************************************)
IsFailure(o) ==
    /\ o.settled = "resolved" /\ o.hasError /\ o.error # <<>> /\ ~o.hasData

IsSuccess(o) ==
    /\ o.settled = "resolved" /\ o.hasData /\ ~o.hasError

ClientErrorAt(i) == isClientError(provider, errs[i].msg)

TransientAt(i) == errs[i].step = "fetch" /\ ~ClientErrorAt(i)

\* C2: never more than 3 safeApiFetch calls and 2 waits, each wait following
\* a failed call; a call all of whose attempts failed with a transient error
\* made exactly 3, waited 200 ms then 400 ms and nothing after the third,
\* and ended in a failure outcome
C2_ThreeAttemptsBackoff ==
    provider \in RetryProviders =>
        /\ calls <= 3
        /\ Len(waits) <= 2
        /\ pc = "backoff" => Len(waits) = calls
        /\ (pc = "done" /\ calls > 0 /\ Len(errs) = calls
                /\ \A i \in DOMAIN errs : TransientAt(i))
            => /\ calls = 3
               /\ waits = <<200, 400>>
               /\ IsFailure(outcome) /\ outcome.error = errs[3].msg

C2_Witness ==
    /\ provider \in RetryProviders /\ pc = "done"
    /\ calls = 3 /\ Len(errs) = 3
    /\ \A i \in DOMAIN errs : TransientAt(i)

\* C6: a call of any of the four fetch methods goes on until it settles, it
\* never rejects, and what it resolves with carries the provider's source
\* tag and is either a success (data, no error) or a failure (an error
\* message, no data)
C6_AlwaysResolves ==
    /\ pc # "done" => (outcome = NoOutcome /\ ENABLED ProviderNext)
    /\ pc = "done" =>
        /\ outcome.settled = "resolved"
        /\ outcome.source = provider
        /\ IsSuccess(outcome) \/ IsFailure(outcome)
        /\ ~(IsSuccess(outcome) /\ IsFailure(outcome))

C6_Witness ==
    /\ pc = "done" /\ IsFailure(outcome)
    /\ provider = "sunrisesunset" /\ errs # <<>> /\ errs[1].step = "json"

\* the call's arguments fail a precondition of its client
PreconditionFails ==
    \/ ~validateCoordinates(args.latitude, args.longitude).valid
    \/ provider = "meteostat" /\ ~_validateDates(args.startDate, args.endDate).valid
    \/ provider = "visualcrossing" /\ args.apiKey \in {"null", "empty", "blank"}

\* C7: a call whose arguments fail a precondition never calls safeApiFetch
\* and ends, at its first step, in a failure outcome
C7_PreconditionShortCircuits ==
    PreconditionFails =>
        /\ calls = 0
        /\ pc \in {"start", "done"}
        /\ pc = "done" => IsFailure(outcome)

C7_Witness ==
    /\ PreconditionFails /\ pc = "done"
    /\ provider = "visualcrossing" /\ args.apiKey = "blank"
    /\ validateCoordinates(args.latitude, args.longitude).valid

\* C22 as stated: the failure outcome of a call whose arguments fail a
\* precondition names its kind of error as ValidationError, and the failure
\* outcome of a call that failed in the network or later never does
C22_ValidationErrorDistinct ==
    (pc = "done" /\ IsFailure(outcome)) =>
        /\ PreconditionFails => outcome.kind = "ValidationError"
        /\ ~PreconditionFails => outcome.kind # "ValidationError"

\* C8 as stated: once a payload has failed _validateResponse, the client
\* makes no further safeApiFetch call
C8_InvalidPayloadNotRetried ==
    \A i \in DOMAIN errs : errs[i].step = "schema" => calls = i

(***************************************************************************)
(* Properties of the service worker                                        *)
(***************************************************************************)
RetrySync == [type |-> "sync", tag |-> "retry-failed-requests"]

\* the id whose replay fetch drain d is waiting for
InFlight(d) == drains[d].failedRequests[drains[d].i].id

\* C3 as stated: no two executions of retryFailedRequests are in progress
\* at the same time, and no queued request id has two replay fetches in
\* flight
C3_NoConcurrentDrains ==
    \A d1, d2 \in DOMAIN drains :
        d1 # d2 =>
            /\ ~(Running(d1) /\ Running(d2))
            /\ ~(/\ drains[d1].pc = "fetch" /\ drains[d2].pc = "fetch"
                 /\ InFlight(d1) = InFlight(d2))

\* the entries a drain should leave: those of the store at its start whose
\* replay did not return an ok response
Unreplayed(dr) ==
    [k \in {id \in DOMAIN dr.atStart : id \notin dr.ok} |-> dr.atStart[k]]

\* C4 as stated: at the step that completes a drain, the store holds exactly
\* the entries present at the drain's start whose replay did not return ok,
\* unchanged
C4_StoreAfterDrain ==
    [][\A d \in DOMAIN drains :
        (drains[d].pc # "done" /\ drains'[d].pc = "done")
            => store' = Unreplayed(drains[d])]_vars

\* the cached entries for the request of the fetch event, in any generation
CachedFor(url) ==
    {cache[n][url] : n \in {m \in DOMAIN cache : url \in DOMAIN cache[m]}}

\* C5: a fetch event whose network fetch failed is answered: the handler is
\* waiting for caches.match, which settles, or has responded; and it
\* responds with a cached entry for the request when there is one and with
\* the synthetic 503 response otherwise
C5_OfflineFallbackAnswers ==
    /\ [](fetchEv.failed =>
            /\ fetchEv.pc \in {"match", "responded"}
            /\ fetchEv.pc = "match" => ENABLED FallbackMatched
            /\ fetchEv.pc = "responded" => fetchEv.response # NoResponse)
    /\ [][(fetchEv.failed /\ fetchEv.pc = "match" /\ fetchEv' # fetchEv) =>
            /\ fetchEv'.pc = "responded"
            /\ fetchEv'.request = fetchEv.request
            /\ IF CachedFor(fetchEv.request) # {}
               THEN fetchEv'.response \in CachedFor(fetchEv.request)
               ELSE fetchEv'.response = OfflineResponse]_vars

C5_Witness ==
    /\ fetchEv.failed /\ fetchEv.pc = "responded"
    /\ fetchEv.request = LogoPng
    /\ fetchEv.response = OfflineResponse

\* C9 as stated: once the handler has answered a request whose network
\* fetch failed, the failedRequests store holds an entry for that request
C9_FailureEnqueued ==
    (fetchEv.failed /\ fetchEv.pc = "responded")
        => \E id \in DOMAIN store : store[id].url = fetchEv.request[3]

\* the last event dispatched started a drain
StartedDrain ==
    /\ "retryFailedRequests" \in started
    /\ drains # <<>>
    /\ drains[Len(drains)].trigger = lastEvent

ReplayCount(dr, id) == Cardinality({k \in DOMAIN dr.replays : dr.replays[k] = id})

\* the ids of the first n entries a call has read, in order
ReadIds(dr, n) == [k \in 1..n |-> dr.failedRequests[k].id]

\* the step ends call d of retryFailedRequests
Completes(d) == drains[d].pc # "done" /\ drains'[d].pc = "done"

\* C11 as stated: when a drain ends, fetch has been called exactly once for
\* every entry that was in the store when the drain started
C11_EveryStartEntryReplayed ==
    [][\A d \in DOMAIN drains :
        Completes(d) =>
            \A id \in DOMAIN drains[d].atStart : ReplayCount(drains[d], id) = 1]_vars

\* C11 amended: a drain makes one pass over the entries it read from the
\* store (getAll): while it runs, fetch has been called exactly once for
\* each entry up to the current one, in key order, whatever became of the
\* earlier ones; it ends only from the last entry read, each of them
\* replayed exactly once; it can always take its next step; and a drain
\* whose open or read was rejected ends without a replay.  The entries read
\* were all in the store when the drain started
C11_EveryReadEntryReplayedOnce ==
    /\ [](\A d \in DOMAIN drains :
            LET dr == drains[d] IN
            /\ dr.pc \in {"open", "getAll", "done"} => dr.replays = <<>>
            /\ dr.pc \in {"fetch", "remove"} =>
                /\ dr.i \in 1..Len(dr.failedRequests)
                /\ dr.replays = ReadIds(dr, dr.i)
                /\ \A k \in 1..dr.i : ReplayCount(dr, dr.failedRequests[k].id) = 1
                /\ \A k \in DOMAIN dr.failedRequests :
                        dr.failedRequests[k].id \in DOMAIN dr.atStart
            /\ dr.pc = "open" => ENABLED DrainOpened
            /\ dr.pc = "getAll" => ENABLED DrainGotAll
            /\ dr.pc = "fetch" => ENABLED DrainFetched
            /\ dr.pc = "remove" => ENABLED DrainRemoved)
    /\ [][\A d \in DOMAIN drains :
            Completes(d) =>
                /\ drains[d].replays = ReadIds(drains[d], Len(drains[d].failedRequests))
                /\ drains[d].pc = "getAll" => (drains[d].replays = <<>>)]_vars

\* a drain replays its second entry after the replay of the first failed
C11_Witness ==
    \E d \in DOMAIN drains :
        /\ drains[d].pc = "fetch" /\ drains[d].i = 2
        /\ ~drains[d].clean
        /\ drains[d].replays = <<1, 2>>

\* C12 as stated: the step in which the replay of an entry fails (the fetch
\* returns a response that is not ok, or throws) adds one to the attempts
\* counter of that entry in the store
C12_FailedReplayIncrementsAttempts ==
    [][\A d \in DOMAIN drains :
        (/\ drains[d].pc = "fetch"
         /\ drains'[d] # drains[d] /\ drains'[d].pc # "remove"
         /\ InFlight(d) \in DOMAIN store)
            => /\ InFlight(d) \in DOMAIN store'
               /\ store'[InFlight(d)].attempts = store[InFlight(d)].attempts + 1]_vars

\* C19 as stated: a drain that started when no other was running, after a
\* drain that went through its whole pass without a failed replay, calls
\* fetch for no entry and leaves the store as it found it
C19_SecondDrainNoCalls ==
    \A d \in DOMAIN drains :
        (/\ d > 1 /\ drains[d].pc # "done" /\ drains[d].solo
         /\ drains[d - 1].pc = "done" /\ drains[d - 1].clean)
            => /\ drains[d].replays = <<>>
               /\ store = drains[d].atStart

(***************************************************************************)
(* Properties of the provider clients: duration                            *)
(***************************************************************************)
\* the shortest time a safeApiFetch call takes
MinCallMs == CHOOSE ms \in CallMs : \A other \in CallMs : ms <= other

\* C18: a fetchWeather / fetchHistorical call whose first two attempts failed
\* with a transient error and whose third attempt gave a payload that is
\* valid and can be formatted has resolved to a success after exactly 3
\* safeApiFetch calls and the waits of 200 and 400 ms; its duration is the
\* time from the call (before the first attempt) to the end of the third
\* attempt, so at least both waits and three calls long
C18_DurationCoversAttempts ==
    (/\ provider \in RetryProviders /\ pc = "done"
     /\ Len(errs) = 2 /\ TransientAt(1) /\ TransientAt(2)
     /\ ~FormatThrows(provider, data))
        => /\ IsSuccess(outcome)
           /\ calls = 3
           /\ waits = <<200, 400>>
           /\ \E t0 \in CallClocks : outcome.duration = clock - t0
           /\ outcome.duration >= 200 + 400 + 3 * MinCallMs

C18_Witness ==
    /\ provider \in RetryProviders /\ pc = "done"
    /\ Len(errs) = 2 /\ TransientAt(1) /\ TransientAt(2)
    /\ errs[1].msg = <<"Zeitueberschreitung">>
    /\ IsSuccess(outcome) /\ outcome.duration = 3 * 5000 + 200 + 400 + 4

(***************************************************************************)
(* Properties of the fetch handler's cache writes                          *)
(***************************************************************************)
\* a response the network gave, good for the shell cache
Cacheable(url, response) ==
    /\ response.body = "network"
    /\ response.status = 200 /\ response.type # "error"
    /\ url[1] \in {"http:", "https:"}
    /\ url[1] = "https:" /\ url[2] = "self"

\* C15: every cache.put the fetch handler issues, and every entry it has
\* stored, is a network response with status 200 and a type other than
\* error to an http(s) request of the worker's own origin, stored in the
\* current generation under the request's URL; a put is issued only in the
\* step that returns that response for that request; and the network
\* response has been returned before the put settles, whatever its result
C15_OnlyCacheableWritten ==
    /\ [](/\ \A p \in puts : Cacheable(p.url, p.response)
          /\ \A n \in DOMAIN cache : \A u \in DOMAIN cache[n] :
                (cache[n][u].body = "network" =>
                    n = CACHE_NAME /\ Cacheable(u, cache[n][u]))
          /\ (fetchEv.pc = "responded" /\ ~fetchEv.failed) =>
                fetchEv.response \in NetworkResponses(fetchEv.request))
    /\ [][
        /\ \A p \in puts' \ puts :
            /\ fetchEv.pc = "network" /\ fetchEv'.pc = "responded"
            /\ p.url = fetchEv.request /\ p.response = fetchEv'.response
        /\ ((fetchEv.pc = "network" /\ fetchEv'.pc = "responded"
                /\ ~Cacheable(fetchEv.request, fetchEv'.response))
             => puts' = puts)
        /\ cache' # cache =>
            /\ fetchEv' = fetchEv
            /\ \E q \in puts :
                /\ puts' = puts \ {q}
                /\ \A n \in DOMAIN cache' : \A u \in DOMAIN cache'[n] :
                    ((n \notin DOMAIN cache \/ u \notin DOMAIN cache[n]
                        \/ cache'[n][u] # cache[n][u])
                     => n = CACHE_NAME /\ u = q.url /\ cache'[n][u] = q.response)
       ]_vars

\* a response to a request of the worker's origin is stored in the current
\* generation, and a cross-origin response with status 200 has been returned
C15_Witness ==
    /\ CACHE_NAME \in DOMAIN cache /\ LogoPng \in DOMAIN cache[CACHE_NAME]
    /\ cache[CACHE_NAME][LogoPng].body = "network"
    /\ fetchEv.pc = "responded" /\ ~fetchEv.failed
    /\ fetchEv.request[2] # "self" /\ fetchEv.response.status = 200

\* the external-API hosts the fetch listener names
ApiHosts ==
    {"api.open-meteo.com", "api.brightsky.dev", "nominatim.openstreetmap.org",
     "geocoding-api.open-meteo.com"}

\* C16: for a request to one of the external-API hosts the handler returns
\* without calling respondWith: no response is supplied, no network fetch of
\* the handler is running for it, and no cache.put is ever issued or stored
\* under a URL of these hosts
C16_ApiRequestsPassThrough ==
    /\ fetchEv.request[2] \in ApiHosts =>
            fetchEv.pc = "passthrough" /\ fetchEv.response = NoResponse
    /\ \A p \in puts : p.url[2] \notin ApiHosts
    /\ \A n \in DOMAIN cache : \A u \in DOMAIN cache[n] : u[2] \notin ApiHosts

C16_Witness ==
    /\ fetchEv.pc = "passthrough"
    /\ fetchEv.request[2] = "nominatim.openstreetmap.org"
    /\ puts # {}

(***************************************************************************)
(* Properties of install and activate                                      *)
(***************************************************************************)
\* C13: when the promise of the activate handler has resolved, no cache
\* with a name other than CACHE_NAME is left; and no step of the activate
\* handler deletes or changes the cache named CACHE_NAME
C13_OldGenerationsDeleted ==
    /\ [](activateEv.pc = "resolved" =>
            /\ DOMAIN cache \subseteq {CACHE_NAME}
            /\ activateEv.pending = {})
    /\ [][(activateEv' # activateEv /\ CACHE_NAME \in DOMAIN cache) =>
            /\ CACHE_NAME \in DOMAIN cache'
            /\ cache'[CACHE_NAME] = cache[CACHE_NAME]]_vars

\* activation has completed after deleting two old generations, the
\* current one is there
C13_Witness ==
    /\ activateEv.pc = "resolved"
    /\ activateEv.deleted = {OlderCacheName, OldCacheName}
    /\ DOMAIN cache = {CACHE_NAME}
    /\ AppJs \in DOMAIN cache[CACHE_NAME]

\* C14: the promise the install handler gives to waitUntil never rejects:
\* while pending its next step can be taken, and it resolves also when
\* opening the cache or caching the resources failed, in which case the
\* failure has been logged; activation starts only after it has resolved
C14_InstallAlwaysCompletes ==
    /\ installEv.pc \in {"idle", "open", "addAll", "resolved"}
    /\ installEv.pc = "idle" => ENABLED InstallEvent
    /\ installEv.pc = "open" => ENABLED InstallOpened
    /\ installEv.pc = "addAll" => ENABLED InstallAddAllSettled
    /\ installEv.logged => installEv.pc = "resolved"
    /\ (installEv.pc = "resolved" /\ activateEv.pc = "idle") => ENABLED ActivateEvent
    /\ activateEv.pc # "idle" => installEv.pc = "resolved"

\* caching the resources failed and the worker activates
C14_Witness ==
    /\ installEv.pc = "resolved" /\ installEv.logged
    /\ CACHE_NAME \in DOMAIN cache /\ cache[CACHE_NAME] = <<>>
    /\ activateEv.pc = "keys"

(***************************************************************************)
(* Properties of staleWhileRevalidate                                      *)
(***************************************************************************)
\* staleWhileRevalidate returns
SwrReturns == swr.pc = "match" /\ swr'.pc = "returned"

\* when the call returns with a cached response for the request, its promise
\* is resolved with a cached response while the refresh is still pending,
\* and nothing the refresh does afterwards changes what it resolved with
SwrServesCached ==
    /\ (SwrReturns /\ CachedFor(swr.request) # {}) =>
            /\ swr'.settled = "resolved"
            /\ swr'.response \in CachedFor(swr.request)
            /\ swr'.refresh = "pending"
    /\ (swr.pc = "returned" /\ swr'.pc = "returned" /\ swr.settled = "resolved") =>
            /\ swr'.settled = "resolved"
            /\ swr'.response = swr.response

OptionalFields ==
    {"temp_min", "temp_max", "temp_avg", "wind_speed", "wind_direction", "pressure"}

\* C20 as stated: in every day record _formatHistoricalData returns, each
\* optional field is a number or null, never undefined and never NaN
C20_OptionalFieldsNumberOrNull ==
    (fn = "_formatHistoricalData" /\ output.called) =>
        \A k \in DOMAIN output.value.daily : \A f \in OptionalFields :
            output.value.daily[k][f].t \in {"number", "null"}

\* the code for an amount: none or zero, below 2 mm, below 5 mm, more
CodeOfAmount(x) ==
    IF x.t \in {"null", "undefined"} \/ x.v = 0 THEN 0
    ELSE IF x.v > 0 /\ x.v < 20 THEN 61
    ELSE IF x.v >= 20 /\ x.v < 50 THEN 63
    ELSE 65

\* C21 as stated: _mapPrecipitationToCode gives 0 for a null, missing or
\* zero amount, 61 for an amount above 0 and below 2, 63 from 2 to below 5
\* and 65 from 5 on; and in a day record _formatHistoricalData returns,
\* weather_code is 0 exactly when the reported precipitation is 0
C21_CodeFromPrecipitation ==
    /\ (fn = "_mapPrecipitationToCode" /\ output.called) =>
            output.value = CodeOfAmount(input)
    /\ (fn = "_formatHistoricalData" /\ output.called) =>
            \A k \in DOMAIN output.value.daily :
                (output.value.daily[k].weather_code = Num(0))
                    <=> (output.value.daily[k].precipitation = Num(0))

(***************************************************************************)
(* Properties of _mapWeatherCondition                                      *)
(***************************************************************************)
\* the words of the text, in lower case, hold the phrase
Names(text, phrase) == HasRun(toLowerCase(text), phrase)

\* the words _mapWeatherCondition knows
KnownWords ==
    {"clear", "sunny", "cloudy", "overcast", "drizzle", "rain", "snow",
     "thunderstorm", "fog", "windy"}

\* every word of the text, in lower case, is one of the words
OnlyWords(text, words) == \A k \in DOMAIN text : LowerCaseWord(text[k]) \in words

\* C30 as stated: _mapWeatherCondition gives 65 for a text with 'heavy rain'
\* or 'intense rain', 51 for one with 'light rain' or 'drizzle', 63 for any
\* other text with 'rain', 2 for a text with 'mostly clear' or 'partly
\* cloudy', and 3 for an empty text or one with no word it knows; each case
\* is read for the texts that name no other kind of weather
C30_ConditionCodes ==
    (fn = "_mapWeatherCondition" /\ output.called) =>
        LET heavy == Names(input, <<"heavy", "rain">>) \/ Names(input, <<"intense", "rain">>)
            light == Names(input, <<"light", "rain">>) \/ Names(input, <<"drizzle">>)
            partly == Names(input, <<"mostly", "clear">>) \/ Names(input, <<"partly", "cloudy">>)
        IN /\ (heavy /\ OnlyWords(input, {"heavy", "intense", "rain"}))
                => output.value = 65
           /\ (light /\ OnlyWords(input, {"light", "rain", "drizzle"}))
                => output.value = 51
           /\ (Names(input, <<"rain">>) /\ ~heavy /\ ~light
                 /\ OnlyWords(input, {"rain", "heavy", "intense", "light", "hail"}))
                => output.value = 63
           /\ (partly /\ OnlyWords(input, {"mostly", "clear", "partly", "cloudy"}))
                => output.value = 2
           /\ OnlyWords(input, {LowerCaseWord(w) : w \in ConditionWords} \ KnownWords)
                => output.value = 3

\* C24 as stated: when the request for exactly one of the listed app-shell
\* resources fails during install, every other listed resource is stored in
\* the cache of the current generation
C24_OthersStoredDespiteFailure ==
    (installEv.pc = "resolved" /\ Cardinality(installEv.failing) = 1) =>
        /\ CACHE_NAME \in DOMAIN cache
        /\ \A u \in urlsToCache \ installEv.failing : u \in DOMAIN cache[CACHE_NAME]

\* the hosts of the provider clients' base URLs
ProviderHosts == {"weather.visualcrossing.com", "api.meteostat.net"}

\* C27 as stated: a request to the host of a provider client is passed
\* through by the fetch handler, which never answers it itself
C27_ProviderHostsPassThrough ==
    (fetchEv.pc # "idle" /\ fetchEv.request[2] \in ProviderHosts) =>
        fetchEv.pc = "passthrough" /\ fetchEv.response = NoResponse

\* the request has an entry in the cache of the current generation
InCurrentGeneration(url) ==
    CACHE_NAME \in DOMAIN cache /\ url \in DOMAIN cache[CACHE_NAME]

\* C25 as stated: the fetch handler never waits for the network with a
\* same-origin request for an asset outside the app shell that has a cached
\* entry
C25_CachedAssetNotAwaitingNetwork ==
    ~ /\ fetchEv.pc = "network"
      /\ SameOrigin(fetchEv.request)
      /\ fetchEv.request \notin urlsToCache
      /\ InCurrentGeneration(fetchEv.request)

\* C28 as stated: what the offline fallback answers with is the entry of the
\* current generation for the request, or the offline response
C28_FallbackFromCurrentGeneration ==
    [][(fetchEv.pc = "match" /\ fetchEv'.pc = "responded") =>
            \/ fetchEv'.response = OfflineResponse
            \/ /\ InCurrentGeneration(fetchEv.request)
               /\ fetchEv'.response = cache[CACHE_NAME][fetchEv.request]]_vars

\* C26 as stated: a staleWhileRevalidate call that found no cached entry and
\* whose network request failed resolves with the offline response; it
\* neither rejects nor stays pending
C26_NoCacheNoNetworkAnswered ==
    (swr.pc = "returned" /\ ~swr.hasCached /\ swr.refresh = "rejected") =>
        swr.settled = "resolved" /\ swr.response = OfflineResponse

(***************************************************************************)
(* Properties of the Analytics singleton                                   *)
(***************************************************************************)
\* a step of logEvent or of one of its wrappers
LogCall == LogEvent \/ LogSearch \/ LogFavorite \/ LogApiCall \/ LogError

\* C23: the singleton is disabled when constructed unless localStorage holds
\* 'true' under 'analytics-enabled', and after a disable() that returned;
\* while it is disabled, a call of logEvent, logSearch, logFavorite,
\* logApiCall or logError leaves this.events and the localStorage keys as
\* they were
C23_DisabledRecordsNothing ==
    /\ [](analytics.lastCall.name = "constructor" =>
            (analytics.enabled <=> analytics.storage.enabled = "true"))
    /\ []((analytics.lastCall.name = "disable" /\ analytics.lastCall.result = "done")
            => ~analytics.enabled)
    /\ [][(LogCall /\ ~analytics.enabled) =>
            /\ analytics'.events = analytics.events
            /\ analytics'.storage = analytics.storage
            /\ analytics'.enabled = analytics.enabled
            /\ analytics'.lastCall.result = "ignored"]_vars

\* logError was called after disable() and after earlier events were logged,
\* and was ignored
C23_Witness ==
    /\ analytics.lastCall = [name |-> "logError", result |-> "ignored"]
    /\ analytics.storage.enabled = "false"
    /\ analytics.calls > 0 /\ analytics.events # <<>>

\* the last n elements of s, or all of s
LastOf(s, n) ==
    LET m == IF Len(s) < n THEN Len(s) ELSE n
    IN [k \in 1..m |-> s[Len(s) - m + k]]

\* the last call was a log call that was recorded
Recorded == analytics.lastCall.result \in {"saved", "unsaved"}

\* this.events holds the most recent events, in the order logged, and no
\* more than maxEvents of them
HoldsMostRecent ==
    LET pushed == analytics.logged - analytics.cleared
    IN /\ Len(analytics.events) = IF pushed < maxEvents THEN pushed ELSE maxEvents
       /\ \A k \in DOMAIN analytics.events :
            analytics.events[k].timestamp
                = analytics.logged - Len(analytics.events) + k

\* 'analytics-events' holds the last 100 events of this.events
PersistedRecent ==
    analytics.storage.events = Item(JSONstringify(LastOf(analytics.events, RecentCount)))

\* C29 as stated: after a recorded log call, this.events holds the most
\* recent events, at most maxEvents of them, in the order logged, and
\* 'analytics-events' holds exactly the last 100 of them (all, if fewer)
C29_BoundedAndPersisted ==
    Recorded => (HoldsMostRecent /\ PersistedRecent)

\* C29 amended: after a recorded log call, this.events holds the most recent
\* events, at most maxEvents of them, in the order logged; 'analytics-events'
\* holds exactly the last 100 of them when setItem stored the text, and is
\* left as it was when setItem threw
C29_BoundedAndPersistedIfStored ==
    /\ [](Recorded => HoldsMostRecent)
    /\ []((Recorded /\ analytics.lastCall.result = "saved") => PersistedRecent)
    /\ [][(LogCall /\ analytics'.lastCall.result = "unsaved") =>
            analytics'.storage = analytics.storage]_vars

\* the list was full, the oldest event was dropped, and the last 100 events
\* were stored
C29_Witness ==
    /\ Recorded /\ analytics.lastCall.result = "saved"
    /\ analytics.logged = maxEvents + 1
    /\ Len(analytics.events) = maxEvents
    /\ analytics.events[1].timestamp = 2
    /\ Len(analytics.storage.events.json) = RecentCount

====
